---- MODULE Spec2Model ----
(***************************************************************************)
(* The scientist-network extractor of extract_scientists_final.py:         *)
(* column-aware page linearisation, page aggregation, the bracket-tag      *)
(* entry parser, the reference resolver, the graph builder, the JSON       *)
(* writer and the driver.                                                  *)
(*                                                                         *)
(* Text is a sequence of atoms.  An atom is one of                         *)
(*   sp      one blank                                                     *)
(*   nl      one newline                                                   *)
(*   marker  the characters ---PAGE_n---                                   *)
(*   tag     the characters [n], n a decimal number                        *)
(*   bad     a bracket whose content is not a number, such as [abc]        *)
(*   word    a run of characters holding no blank and no bracket           *)
(* and every atom has the length of the characters it stands for, so that  *)
(* character offsets into a text are computed as the code computes them.   *)
(***************************************************************************)
EXTENDS Integers, Sequences, FiniteSets, TLC

\* ------------------------------------------------------------------ bounds

\* Longest sequence of bracket segments an input document holds.
MaxSegs == 3
\* Largest entity id written in a bracket tag of an input document.
MaxId == 2
\* Bracket segments typeset on one page of an input document.
SegsPerPage == 2
\* Most tokens on a page handed directly to the column segmenter.
MaxTokens == 3
\* Pages of the range, num_pages: main passes 923; the documents here have
\* a few pages and the range is cut with them.
NumPages == 2

\* ------------------------------------------------------- program constants

\* header_threshold = top_y + 5
HeaderTolerance == 5
\* extractor.process(start_page=33, num_pages=923)
StartPage == 33
\* sorted(...)[:10] in generate_summary_stats
TopK == 10

\* ------------------------------------------------------------------ atoms

UpperCase ==
    {"A","B","C","D","E","F","G","H","I","J","K","L","M",
     "N","O","P","Q","R","S","T","U","V","W","X","Y","Z"}

Sp == [k |-> "sp", n |-> 0, c |-> <<>>]
Nl == [k |-> "nl", n |-> 0, c |-> <<>>]
Marker(p) == [k |-> "marker", n |-> p, c |-> <<>>]
Tag(id) == [k |-> "tag", n |-> id, c |-> <<>>]
Bad == [k |-> "bad", n |-> 0, c |-> <<"a","b","c">>]
Word(chars) == [k |-> "word", n |-> 0, c |-> chars]

IsSpace(a) == a.k \in {"sp", "nl"}

RECURSIVE Digits(_)
\* len(str(n)) for n >= 0
Digits(n) == IF n < 10 THEN 1 ELSE 1 + Digits(n \div 10)

\* len() of the characters an atom stands for
AtomLen(a) ==
    CASE a.k = "sp" -> 1
      [] a.k = "nl" -> 1
      [] a.k = "marker" -> 8 + Digits(a.n) + 3
      [] a.k = "tag" -> 1 + Digits(a.n) + 1
      [] a.k = "bad" -> 1 + Len(a.c) + 1
      [] OTHER -> Len(a.c)

RECURSIVE TextLen(_)
\* len(text)
TextLen(t) == IF t = <<>> THEN 0 ELSE AtomLen(Head(t)) + TextLen(Tail(t))

RECURSIVE Concat(_)
\* the concatenation of a sequence of texts
Concat(ts) == IF ts = <<>> THEN <<>> ELSE Head(ts) \o Concat(Tail(ts))

RECURSIVE JoinSp(_)
\* ' '.join(words): the word atoms with one blank between neighbours
JoinSp(ws) ==
    IF ws = <<>> THEN <<>>
    ELSE IF Len(ws) = 1 THEN <<ws[1]>>
    ELSE <<ws[1], Sp>> \o JoinSp(Tail(ws))

RECURSIVE LStrip(_)
LStrip(t) == IF t # <<>> /\ IsSpace(Head(t)) THEN LStrip(Tail(t)) ELSE t

RECURSIVE RStrip(_)
RStrip(t) ==
    IF t # <<>> /\ IsSpace(t[Len(t)]) THEN RStrip(SubSeq(t, 1, Len(t) - 1)) ELSE t

\* str.strip()
Strip(t) == RStrip(LStrip(t))

RECURSIVE CollapseSpace(_)
\* re.sub(r'\s+', ' ', t): every run of blanks and newlines becomes one blank
CollapseSpace(t) ==
    IF t = <<>> THEN <<>>
    ELSE IF IsSpace(Head(t))
         THEN <<Sp>> \o CollapseSpace(LStrip(t))
         ELSE <<Head(t)>> \o CollapseSpace(Tail(t))

RECURSIVE SplitWords(_)
\* str.split(): the atoms between blanks
SplitWords(t) ==
    IF t = <<>> THEN <<>>
    ELSE IF IsSpace(Head(t)) THEN SplitWords(Tail(t))
    ELSE <<Head(t)>> \o SplitWords(Tail(t))

\* ------------------------------------------------------- ColumnSegmenter
\* A token is [text, x0, top]; a page is [words, width], words in the order
\* page.extract_words() returns them.  Horizontal positions are compared
\* doubled, so that the midpoint (a + b) / 2 stays an integer: x0 < boundary
\* is 2 * x0 < boundary2.

RECURSIVE InsertByTop(_, _)
\* w put behind every token of the sorted ws whose top is not larger
InsertByTop(ws, w) ==
    IF ws = <<>> THEN <<w>>
    ELSE IF Head(ws).top <= w.top
         THEN <<Head(ws)>> \o InsertByTop(Tail(ws), w)
         ELSE <<w>> \o ws

\* SortByTop with the sort left out
SortByTopOmitted(ws) == ws

RECURSIVE SortByTop(_)
\* list.sort(key=lambda w: w['top']): stable, ascending
SortByTop(ws) ==
    IF ws = <<>> THEN <<>>
    ELSE InsertByTop(SortByTop(SubSeq(ws, 1, Len(ws) - 1)), ws[Len(ws)])

RECURSIVE InsertInt(_, _)
InsertInt(xs, x) ==
    IF xs = <<>> THEN <<x>>
    ELSE IF Head(xs) <= x
         THEN <<Head(xs)>> \o InsertInt(Tail(xs), x)
         ELSE <<x>> \o xs

RECURSIVE SortInts(_)
\* x_positions.sort()
SortInts(xs) ==
    IF xs = <<>> THEN <<>>
    ELSE InsertInt(SortInts(SubSeq(xs, 1, Len(xs) - 1)), xs[Len(xs)])

\* sorted_words[0]['top']: the smallest vertical offset of the page
TopY(words) ==
    CHOOSE t \in {words[j].top : j \in 1..Len(words)} :
        \A j \in 1..Len(words) : t <= words[j].top

\* IsContentWord with >= in place of >
IsContentWordInclusive(w, top_y) == w.top >= top_y + HeaderTolerance

IsContentWord(w, top_y) == w.top > top_y + HeaderTolerance

\* the tokens left after the header line is removed, or all of them
ContentWords(words) ==
    LET top_y == TopY(words)
        kept == SelectSeq(words, LAMBDA w : IsContentWord(w, top_y))
    IN  IF kept = <<>> THEN words ELSE kept

\* gaps: (gap, x_positions[j], x_positions[j+1]) for neighbours
Gaps(xs) ==
    [j \in 1..(Len(xs) - 1) |-> <<xs[j + 1] - xs[j], xs[j], xs[j + 1]>>]

\* tuple order of Python, on triples
TupleLess(a, b) ==
    \/ a[1] < b[1]
    \/ a[1] = b[1] /\ a[2] < b[2]
    \/ a[1] = b[1] /\ a[2] = b[2] /\ a[3] < b[3]

\* LargestGap with the sort of the gaps left out: the first gap is taken
FirstGap(gaps) == gaps[1]

\* gaps.sort(reverse=True); gaps[0]
LargestGap(gaps) ==
    CHOOSE g \in {gaps[j] : j \in 1..Len(gaps)} :
        \A j \in 1..Len(gaps) : ~TupleLess(g, gaps[j])

\* twice column_boundary
ColumnBoundary2(content_words, width) ==
    LET x_positions == SortInts([j \in 1..Len(content_words) |-> content_words[j].x0])
        gaps == Gaps(x_positions)
    IN  IF Len(x_positions) > 1
        THEN LET g == LargestGap(gaps) IN g[2] + g[3]
        ELSE width

InLeftColumn(w, boundary2) == 2 * w.x0 < boundary2

\* the texts of the tokens, joined by blanks
ColumnText(ws) == JoinSp([j \in 1..Len(ws) |-> ws[j].text])

\* Columns with the right list taken from all tokens, not from the rest
ColumnsRightHoldsAll(page) ==
    LET content_words == ContentWords(page.words)
        boundary2 == ColumnBoundary2(content_words, page.width)
    IN  [content |-> content_words,
         boundary2 |-> boundary2,
         left |-> SortByTop(SelectSeq(content_words,
                                      LAMBDA w : InLeftColumn(w, boundary2))),
         right |-> SortByTop(content_words)]

\* the columns of a page that has tokens: the boundary and the two sorted lists
Columns(page) ==
    LET content_words == ContentWords(page.words)
        boundary2 == ColumnBoundary2(content_words, page.width)
    IN  [content |-> content_words,
         boundary2 |-> boundary2,
         left |-> SortByTop(SelectSeq(content_words,
                                      LAMBDA w : InLeftColumn(w, boundary2))),
         right |-> SortByTop(SelectSeq(content_words,
                                       LAMBDA w : ~InLeftColumn(w, boundary2)))]

extract_text_in_columns(page) ==
    IF page.words = <<>> THEN <<>>
    ELSE LET cols == Columns(page)
         IN  ColumnText(cols.left) \o <<Nl, Nl>> \o ColumnText(cols.right)

\* -------------------------------------------------------- PageAggregator
\* A document is the sequence of its pages from page StartPage on; the pages
\* before StartPage are never opened.

RECURSIVE PagesText(_, _)
\* the loop of extract_text_from_pdf from iteration i on, no page failing
PagesText(doc, i) ==
    IF i >= NumPages \/ i >= Len(doc) THEN <<>>
    ELSE LET text == extract_text_in_columns(doc[i + 1])
         IN  (IF text # <<>>
              THEN <<Nl, Marker(StartPage + i), Nl>> \o text
              ELSE <<>>) \o PagesText(doc, i + 1)

\* the pages the loop opens: those of the range that exist
PagesVisited(doc) == 1..(IF Len(doc) < NumPages THEN Len(doc) ELSE NumPages)

\* full_text as returned: failing = 0 when every page is read, otherwise the
\* page whose read raises, which the handler around the loop answers with ""
extract_text_from_pdf(doc, failing) ==
    IF failing # 0 THEN <<>> ELSE PagesText(doc, 0)

\* ----------------------------------------------------------- EntryParser

RECURSIVE RemoveMarkers(_)
\* re.sub(r'\n---PAGE_\d+---\n', ' ', text)
RemoveMarkers(t) ==
    IF t = <<>> THEN <<>>
    ELSE IF Len(t) >= 3 /\ t[1].k = "nl" /\ t[2].k = "marker" /\ t[3].k = "nl"
         THEN <<Sp>> \o RemoveMarkers(SubSeq(t, 4, Len(t)))
         ELSE <<Head(t)>> \o RemoveMarkers(Tail(t))

CleanText(text) == CollapseSpace(RemoveMarkers(text))

OpensBracket(a) == a.k \in {"tag", "bad"}

\* the end of [^[]*: the last atom before the next bracket after position p
AfterEnd(t, p) ==
    LET nxt == {q \in (p + 1)..Len(t) : OpensBracket(t[q])}
    IN  IF nxt = {} THEN Len(t)
        ELSE (CHOOSE q \in nxt : \A r \in nxt : q <= r) - 1

\* re.finditer(r'\[(\d+)\]([^[]*)', clean_text): one match per tag atom, with
\* group(1) as id, group(2) as after and match.start() as start
BracketMatches(t) ==
    LET at == SelectSeq([p \in 1..Len(t) |-> p], LAMBDA p : t[p].k = "tag")
    IN  [j \in 1..Len(at) |->
            [id |-> t[at[j]].n,
             after |-> SubSeq(t, at[j] + 1, AfterEnd(t, at[j])),
             start |-> TextLen(SubSeq(t, 1, at[j] - 1))]]

\* sum(1 for c in first_word if c.isupper())
CapitalCount(chars) == Cardinality({j \in 1..Len(chars) : chars[j] \in UpperCase})

\* IsNewScientist with len(first_word) >= 2 in place of > 2
IsNewScientistOfTwoLetters(first_word) ==
    CapitalCount(first_word.c) >= 2 /\ Len(first_word.c) >= 2

\* capital_count >= 2 and len(first_word) > 2
IsNewScientist(first_word) ==
    CapitalCount(first_word.c) >= 2 /\ Len(first_word.c) > 2

\* re.search(r'---PAGE_(\d+)---', text[:offset]): the first marker that lies
\* whole inside the prefix, 0 when there is none
PageNumberAt(text, offset) ==
    LET inside == {p \in 1..Len(text) :
                      text[p].k = "marker" /\ TextLen(SubSeq(text, 1, p)) <= offset}
    IN  IF inside = {} THEN 0
        ELSE text[CHOOSE p \in inside : \A q \in inside : p <= q].n

\* biography.strip(), re.sub(r'\s+', ' ', biography).strip()
NormalizeBiography(current_biography) ==
    Strip(CollapseSpace(Strip(current_biography)))

Scientist(id, name) ==
    [id |-> id, name |-> name, biography |-> <<>>, page_number |-> 0,
     connections |-> {}]

\* a dict is the sequence of its (key, ref) items in insertion order
DictKeys(d) == {d[j].key : j \in 1..Len(d)}

\* DictSet as setdefault: a present key keeps its value
DictSetIfAbsent(d, key, ref) ==
    IF key \in DictKeys(d) THEN d ELSE Append(d, [key |-> key, ref |-> ref])

\* d[key] = ref: a present key keeps its place
DictSet(d, key, ref) ==
    IF key \in DictKeys(d)
    THEN [j \in 1..Len(d) |-> IF d[j].key = key THEN [key |-> key, ref |-> ref]
                                               ELSE d[j]]
    ELSE Append(d, [key |-> key, ref |-> ref])

\* NewBiography with the reset of the buffer left out
NewBiographyKeepsOld(current_biography, words) ==
    IF Len(words) > 1 THEN JoinSp(Tail(words)) ELSE current_biography

\* current_biography = ""; if len(words) > 1: current_biography = ' '.join(words[1:])
\* (the buffer of the scientist that was current is dropped)
NewBiography(current_biography, words) ==
    IF Len(words) > 1 THEN JoinSp(Tail(words)) ELSE <<>>

\* AppendReference with nothing appended for a tag that nothing follows
AppendReferenceWithoutBareTag(current_biography, scientist_id, text_after_bracket) ==
    IF text_after_bracket = <<>>
    THEN current_biography
    ELSE current_biography \o <<Sp, Tag(scientist_id), Sp>> \o text_after_bracket

\* current_biography += f" [{scientist_id}] {text_after_bracket}", and
\* current_biography += f" [{scientist_id}]" when nothing follows the tag
AppendReference(current_biography, scientist_id, text_after_bracket) ==
    IF text_after_bracket = <<>>
    THEN current_biography \o <<Sp, Tag(scientist_id)>>
    ELSE current_biography \o <<Sp, Tag(scientist_id), Sp>> \o text_after_bracket

\* current_scientist.connections.add(scientist_id)
AddInlineReference(connections, scientist_id) == connections \cup {scientist_id}

\* the block under "if current_scientist:": page number and biography are
\* written to the object, and the object is stored under its id
SaveScientist(h, d, cur, biography, page_number) ==
    [heap |-> [h EXCEPT ![cur].page_number = page_number,
                        ![cur].biography = biography],
     scientists |-> DictSet(d, h[cur].id, cur)]

\* ------------------------------------------------------ ReferenceResolver

\* re.findall(r'\[(\d+)\]', scientist.biography), as integers
References(biography) ==
    {biography[j].n : j \in {q \in 1..Len(biography) : biography[q].k = "tag"}}

\* ResolvedConnections with symmetric_difference_update in place of add
ResolvedConnectionsToggled(scientist_id, connections, biography) ==
    LET refs == {ref_id \in References(biography) : ref_id # scientist_id}
    IN  (connections \ refs) \cup (refs \ connections)

\* the connection set of one scientist after the loop over its references
ResolvedConnections(scientist_id, connections, biography) ==
    connections \cup {ref_id \in References(biography) : ref_id # scientist_id}

\* the heap after extract_connections has visited every item of the dict
extract_connections(d, h) ==
    [r \in DOMAIN h |->
        IF \E j \in 1..Len(d) : d[j].ref = r
        THEN LET key == d[CHOOSE j \in 1..Len(d) : d[j].ref = r].key
             IN  [h[r] EXCEPT !.connections =
                      ResolvedConnections(key, @, h[r].biography)]
        ELSE h[r]]

\* ----------------------------------------------------------- GraphBuilder

\* the orders in which iterating a set may yield its members
Orderings(S) ==
    {o \in [1..Cardinality(S) -> S] :
        \A a, b \in 1..Cardinality(S) : a # b => o[a] # o[b]}

\* EdgesOf with the targets that are no key of the dict skipped
EdgesOfKnown(d, scientist_id, order) ==
    LET known == SelectSeq(order, LAMBDA t : t \in DictKeys(d))
    IN  [j \in 1..Len(known) |-> [source |-> scientist_id, target |-> known[j]]]

\* EdgesOf with every relationship appended in both directions
EdgesOfBothWays(d, scientist_id, order) ==
    Concat([j \in 1..Len(order) |->
               <<[source |-> scientist_id, target |-> order[j]],
                 [source |-> order[j], target |-> scientist_id]>>])

\* one scientist's relationships, for one iteration order of its connections:
\* the target is looked up in the dict for its name only, and the
\* relationship is appended whether it is found or not
EdgesOf(d, scientist_id, order) ==
    [j \in 1..Len(order) |-> [source |-> scientist_id, target |-> order[j]]]

RECURSIVE RelationshipLists(_, _, _)
\* every list create_relationships may append for the items j.. of the dict
RelationshipLists(d, h, j) ==
    IF j > Len(d) THEN {<<>>}
    ELSE {EdgesOf(d, d[j].key, o) \o rest :
            o \in Orderings(h[d[j].ref].connections),
            rest \in RelationshipLists(d, h, j + 1)}

\* Scientist.to_dict; the connections list is kept as the set it lists
ToDict(s) ==
    [id |-> s.id, name |-> s.name, biography_length |-> TextLen(s.biography),
     page_number |-> s.page_number, biography_full |-> s.biography,
     connections |-> s.connections]

\* the network generate_network_json serialises
Network(d, h, rels) ==
    [metadata |-> [total_scientists |-> Len(d), total_relationships |-> Len(rels)],
     nodes |-> [j \in 1..Len(d) |-> ToDict(h[d[j].ref])],
     links |-> rels]

\* what the output path holds
PreviousFile == [kind |-> "previous", doc |-> <<>>]
CompleteFile(network) == [kind |-> "complete", doc |-> network]
\* the file after a write that stopped with the first written nodes on disk
PartialFile(network, written) ==
    [kind |-> "partial", doc |-> SubSeq(network.nodes, 1, written)]

\* open(output_path, 'w') and json.dump: the file each outcome leaves behind
WrittenFile(previous, network, outcome) ==
    CASE outcome.kind = "open_error" -> previous
      [] outcome.kind = "write_error" -> PartialFile(network, outcome.written)
      [] OTHER -> CompleteFile(network)

\* ---------------------------------------------------------- StatsReporter

RECURSIVE InsertByDegreeBeforeTies(_, _, _)
\* InsertByDegree with > in place of >=: r is put before its ties
InsertByDegreeBeforeTies(h, rs, r) ==
    IF rs = <<>> THEN <<r>>
    ELSE IF Cardinality(h[Head(rs)].connections) > Cardinality(h[r].connections)
         THEN <<Head(rs)>> \o InsertByDegreeBeforeTies(h, Tail(rs), r)
         ELSE <<r>> \o rs

RECURSIVE InsertByDegree(_, _, _)
\* r put behind every entry of the sorted rs whose degree is not smaller
InsertByDegree(h, rs, r) ==
    IF rs = <<>> THEN <<r>>
    ELSE IF Cardinality(h[Head(rs)].connections) >= Cardinality(h[r].connections)
         THEN <<Head(rs)>> \o InsertByDegree(h, Tail(rs), r)
         ELSE <<r>> \o rs

RECURSIVE SortByDegree(_, _)
\* sorted(values, key=lambda x: len(x.connections), reverse=True): stable
SortByDegree(h, rs) ==
    IF rs = <<>> THEN <<>>
    ELSE InsertByDegree(h, SortByDegree(h, SubSeq(rs, 1, Len(rs) - 1)), rs[Len(rs)])

\* most_connected, as the ids of the scientists listed
MostConnected(d, h) ==
    LET sorted == SortByDegree(h, [j \in 1..Len(d) |-> d[j].ref])
        top == SubSeq(sorted, 1, IF Len(sorted) < TopK THEN Len(sorted) ELSE TopK)
    IN  [j \in 1..Len(top) |-> h[top[j]].id]

\* -------------------------------------------------------- input documents
\* A document is typeset from a sequence of bracket segments: a bracket (a
\* tag or a malformed bracket) and the words that follow it.  Every page has
\* a running title on its first line and its words below, one per line, the
\* first half in the left column and the rest in the right column.

THALES == Word(<<"T","H","A","L","E","S">>)
Was == Word(<<"w","a","s">>)
Later == Word(<<"l","a","t","e","r">>)
Title == Word(<<"t","i","t","l","e">>)

Followings == {<<>>, <<THALES>>, <<THALES, Was>>, <<Later>>}

SegShapes ==
    {<<Tag(id)>> \o f : id \in 1..MaxId, f \in Followings}
        \cup {<<Bad>> \o f : f \in {<<>>, <<Later>>}}

SegSeqs == UNION {[1..n -> SegShapes] : n \in 0..MaxSegs}

\* the page typeset from the texts of its words
TypesetPage(texts) ==
    LET n == Len(texts)
        half == (n + 1) \div 2
    IN  [width |-> 300,
         words |-> <<[text |-> Title, x0 |-> 10, top |-> 0]>> \o
                   [j \in 1..n |->
                       IF j <= half
                       THEN [text |-> texts[j], x0 |-> 10, top |-> 10 * j]
                       ELSE [text |-> texts[j], x0 |-> 200, top |-> 10 * (j - half)]]]

\* the document typeset from segments, SegsPerPage of them to a page
TypesetDoc(segs) ==
    LET pages == (Len(segs) + SegsPerPage - 1) \div SegsPerPage
    IN  [p \in 1..pages |->
            TypesetPage(Concat(SubSeq(segs, (p - 1) * SegsPerPage + 1,
                                      IF p * SegsPerPage < Len(segs)
                                      THEN p * SegsPerPage ELSE Len(segs))))]

Docs == {TypesetDoc(segs) : segs \in SegSeqs}

\* --------------------------------------- documents for the entry parser
\* Documents with one bracket segment to a page and more kinds of first word,
\* pages without any token among them; and the rosters, one page each, that
\* list one more entity than the top list of generate_summary_stats holds.

PhD == Word(<<"P","h","D">>)
UK == Word(<<"U","K">>)
Plato == Word(<<"P","l","a","t","o">>)

FirstWords == {THALES, PhD, UK, Plato, Later}

EntryShapes ==
    {<<Tag(id)>> \o f :
        id \in 1..MaxId,
        f \in {<<>>, <<THALES, Was>>} \cup {<<w>> : w \in FirstWords}}
        \cup {<<Bad>>, <<Bad, THALES>>}

\* a page on which extract_words finds nothing
BlankPage == [width |-> 300, words |-> <<>>]

EntryPages == {TypesetPage(shape) : shape \in EntryShapes} \cup {BlankPage}

\* the documents of up to NumPages pages, all of them inside the range
EntryDocs == UNION {[1..n -> EntryPages] : n \in 0..NumPages}

RosterSize == TopK + 1

\* entity i of a roster: its tag and name, two references behind it when it
\* is entity a, one when it is entity b
RosterEntry(i, a, b) ==
    <<Tag(i), THALES>> \o
        (IF i = a THEN <<Tag(RosterSize + 1), Tag(RosterSize + 2)>>
         ELSE IF i = b THEN <<Tag(RosterSize + 1)>>
         ELSE <<>>)

RosterDocs ==
    {<<TypesetPage(Concat([i \in 1..RosterSize |-> RosterEntry(i, a, b)]))>> :
        a \in 0..RosterSize, b \in 0..RosterSize}

\* ------------------------------------------------------------------ state

VARIABLES
    pc,                 \* where the run stands
    doc,                \* book.pdf from page StartPage on
    text,               \* the text extract_text_from_pdf returned
    matches,            \* the bracket matches parse_scientist_entries scans
    match_index,        \* the match the scan is at
    current_scientist,  \* the object that is current (0: None)
    current_biography,  \* the buffer of the current scientist
    heap,               \* the Scientist objects created, by reference
    started_at,         \* history: the match each object was created at
    scientists,         \* self.scientists
    relationships,      \* self.relationships
    out_file,           \* what output_path holds
    most_connected,     \* the top list of generate_summary_stats
    console,            \* the error the run printed ("" when none)
    failed_page,        \* the page whose read raised (0: none did)
    exit_status         \* the exit status of the process (-1 while it runs)

vars == <<pc, doc, text, matches, match_index, current_scientist,
          current_biography, heap, started_at, scientists, relationships,
          out_file, most_connected, console, failed_page, exit_status>>

parser == <<matches, match_index, current_scientist, current_biography,
            heap, started_at, scientists>>

Start(first_pc, documents) ==
    /\ pc = first_pc
    /\ doc \in documents
    /\ text = <<>>
    /\ matches = <<>>
    /\ match_index = 0
    /\ current_scientist = 0
    /\ current_biography = <<>>
    /\ heap = <<>>
    /\ started_at = <<>>
    /\ scientists = <<>>
    /\ relationships = <<>>
    /\ out_file = PreviousFile
    /\ most_connected = <<>>
    /\ console = ""
    /\ failed_page = 0
    /\ exit_status = -1

Init == Start("main", Docs)

\* main: the check for book.pdf, then the extractor is created and run
Main ==
    /\ pc = "main"
    /\ UNCHANGED failed_page
    /\ \E exists \in BOOLEAN :
          IF ~exists
          THEN /\ console' = "pdf not found"
               /\ pc' = "exit"
               /\ exit_status' = 0
          ELSE /\ pc' = "extract"
               /\ UNCHANGED <<console, exit_status>>
    /\ UNCHANGED <<doc, text, relationships, out_file, most_connected>>
    /\ UNCHANGED parser

\* process, step 1: extract_text_from_pdf, and the return when it gave nothing
ExtractTextFromPdf ==
    /\ pc = "extract"
    /\ \E failing \in {0} \cup PagesVisited(doc) :
          LET full_text == extract_text_from_pdf(doc, failing)
          IN  /\ failed_page' = failing
              /\ text' = full_text
              /\ IF full_text = <<>>
                 THEN /\ console' = "failed to extract text"
                      /\ pc' = "exit"
                      /\ exit_status' = 0
                 ELSE /\ pc' = "parse"
                      /\ UNCHANGED <<console, exit_status>>
    /\ UNCHANGED <<doc, relationships, out_file, most_connected>>
    /\ UNCHANGED parser

\* parse_scientist_entries up to the loop: the text is cleaned and matched
ParseBegin ==
    /\ pc = "parse"
    /\ UNCHANGED failed_page
    /\ matches' = BracketMatches(CleanText(text))
    /\ match_index' = 1
    /\ current_scientist' = 0
    /\ current_biography' = <<>>
    /\ pc' = "scan"
    /\ UNCHANGED <<doc, text, heap, started_at, scientists, relationships,
                   out_file, most_connected, console, exit_status>>

\* one turn of the loop over the matches
ParseMatch ==
    /\ pc = "scan"
    /\ UNCHANGED failed_page
    /\ match_index <= Len(matches)
    /\ LET match == matches[match_index]
           scientist_id == match.id
           text_after_bracket == Strip(match.after)
           words == SplitWords(text_after_bracket)
           cur == current_scientist
           saved == IF words # <<>> /\ cur # 0
                    THEN SaveScientist(heap, scientists, cur,
                                       NormalizeBiography(current_biography),
                                       PageNumberAt(text, match.start))
                    ELSE [heap |-> heap, scientists |-> scientists]
       IN  /\ scientists' = saved.scientists
           /\ IF words # <<>> /\ IsNewScientist(words[1])
              THEN /\ heap' = Append(saved.heap, Scientist(scientist_id, words[1].c))
                   /\ started_at' = Append(started_at, match_index)
                   /\ current_scientist' = Len(heap) + 1
                   /\ current_biography' = NewBiography(current_biography, words)
              ELSE IF cur # 0
              THEN /\ heap' = [saved.heap EXCEPT ![cur].connections =
                                   AddInlineReference(@, scientist_id)]
                   /\ current_biography' =
                          AppendReference(current_biography, scientist_id,
                                          text_after_bracket)
                   /\ UNCHANGED <<started_at, current_scientist>>
              ELSE /\ heap' = saved.heap
                   /\ UNCHANGED <<started_at, current_scientist, current_biography>>
    /\ match_index' = match_index + 1
    /\ UNCHANGED <<pc, doc, text, matches, relationships, out_file,
                   most_connected, console, exit_status>>

\* after the loop: the last scientist is saved
ParseEnd ==
    /\ pc = "scan"
    /\ UNCHANGED failed_page
    /\ match_index > Len(matches)
    /\ LET cur == current_scientist
           saved == IF cur # 0
                    THEN SaveScientist(heap, scientists, cur,
                                       NormalizeBiography(current_biography),
                                       PageNumberAt(text, TextLen(text)
                                                      - TextLen(current_biography)))
                    ELSE [heap |-> heap, scientists |-> scientists]
       IN  /\ heap' = saved.heap
           /\ scientists' = saved.scientists
    /\ pc' = "connections"
    /\ UNCHANGED <<doc, text, matches, match_index, current_scientist,
                   current_biography, started_at, relationships, out_file,
                   most_connected, console, exit_status>>

\* process, step 3
ExtractConnections ==
    /\ pc = "connections"
    /\ UNCHANGED failed_page
    /\ heap' = extract_connections(scientists, heap)
    /\ pc' = "relationships"
    /\ UNCHANGED <<doc, text, matches, match_index, current_scientist,
                   current_biography, started_at, scientists, relationships,
                   out_file, most_connected, console, exit_status>>

\* process, step 4
CreateRelationships ==
    /\ pc = "relationships"
    /\ UNCHANGED failed_page
    /\ \E created \in RelationshipLists(scientists, heap, 1) :
          relationships' = relationships \o created
    /\ pc' = "json"
    /\ UNCHANGED <<doc, text, out_file, most_connected, console, exit_status>>
    /\ UNCHANGED parser

\* how the write of the output file may end
WriteOutcomes(network) ==
    {[kind |-> "ok", written |-> Len(network.nodes)],
     [kind |-> "open_error", written |-> 0]}
        \cup {[kind |-> "write_error", written |-> w] : w \in 0..Len(network.nodes)}

\* process, step 5; an error of open or of json.dump is not caught anywhere
GenerateNetworkJson ==
    /\ pc = "json"
    /\ UNCHANGED failed_page
    /\ LET network == Network(scientists, heap, relationships)
       IN  \E outcome \in WriteOutcomes(network) :
              /\ out_file' = WrittenFile(out_file, network, outcome)
              /\ IF outcome.kind = "ok"
                 THEN /\ pc' = "stats"
                      /\ UNCHANGED <<console, exit_status>>
                 ELSE /\ pc' = "exit"
                      /\ console' = "traceback"
                      /\ exit_status' = 1
    /\ UNCHANGED <<doc, text, relationships, most_connected>>
    /\ UNCHANGED parser

\* process, step 6, and the return to main
GenerateSummaryStats ==
    /\ pc = "stats"
    /\ UNCHANGED failed_page
    /\ most_connected' = MostConnected(scientists, heap)
    /\ pc' = "exit"
    /\ exit_status' = 0
    /\ UNCHANGED <<doc, text, relationships, out_file, console>>
    /\ UNCHANGED parser

Next ==
    \/ Main
    \/ ExtractTextFromPdf
    \/ ParseBegin
    \/ ParseMatch
    \/ ParseEnd
    \/ ExtractConnections
    \/ CreateRelationships
    \/ GenerateNetworkJson
    \/ GenerateSummaryStats

Spec == Init /\ [][Next]_vars

\* the same run on the documents for the entry parser
InitEntries == Start("main", EntryDocs \cup RosterDocs)

SpecEntries == InitEntries /\ [][Next]_vars

\* ----------------------------------------- the column segmenter on its own
\* extract_text_in_columns called on one page: the page is doc[1] and the
\* string returned is text.

Letters == <<"a", "b", "c", "d", "e", "f", "g", "h">>

TopChoices == {0, 5, 6, 20}

\* pages of up to MaxTokens tokens, anywhere on a small grid
GridPages ==
    UNION {{[width |-> 300,
             words |-> [j \in 1..n |-> [text |-> Word(<<Letters[j]>>),
                                        x0 |-> xs[j], top |-> tops[j]]]] :
              xs \in [1..n -> {10, 14, 200}], tops \in [1..n -> TopChoices]} :
           n \in 0..MaxTokens}

ClusterX0 == <<10, 12, 14, 200, 202, 205>>

\* pages whose tokens have the x0 values of the two clusters, at any offsets
ClusterPages ==
    {[width |-> 300,
      words |-> [j \in 1..6 |-> [text |-> Word(<<Letters[j]>>),
                                 x0 |-> ClusterX0[j], top |-> tops[j]]]] :
        tops \in [1..6 -> TopChoices]}

InitColumns == Start("segment", {<<page>> : page \in GridPages \cup ClusterPages})

SegmentPage ==
    /\ pc = "segment"
    /\ text' = extract_text_in_columns(doc[1])
    /\ pc' = "segmented"
    /\ UNCHANGED <<doc, relationships, out_file, most_connected, console,
                   failed_page, exit_status>>
    /\ UNCHANGED parser

NextColumns == SegmentPage

SpecColumns == InitColumns /\ [][NextColumns]_vars

\* ================================================================= claims

\* extract_connections has run
Resolved == pc \in {"relationships", "json", "stats", "exit"}

\* the items of the entity map
Items == 1..Len(scientists)
KeyOf(j) == scientists[j].key
EntityOf(j) == heap[scientists[j].ref]

Range(seq) == {seq[j] : j \in 1..Len(seq)}

\* C1: after parse_scientist_entries and extract_connections, no entity's
\* connection set contains the entity's own id.
C1_NoSelfConnection ==
    Resolved => \A j \in Items : KeyOf(j) \notin EntityOf(j).connections

\* C2: after extract_connections, every entity's connection set is exactly
\* the set of ids in the bracket tags of its finalized biography, minus its
\* own id.
C2_ConnectionsAreBiographyIds ==
    Resolved =>
        \A j \in Items :
            EntityOf(j).connections = References(EntityOf(j).biography) \ {KeyOf(j)}

\* C3: running extract_connections again on the entity map it has left
\* changes no connection set.
C3_ResolverIdempotent ==
    Resolved => extract_connections(scientists, heap) = heap

\* C3 witness: the resolver has run on an entity whose biography holds a tag
\* of another entity, which is in its connection set.
C3_Witness ==
    /\ pc = "relationships"
    /\ \E j \in Items :
          \E ref_id \in References(EntityOf(j).biography) :
              ref_id # KeyOf(j) /\ ref_id \in EntityOf(j).connections

\* C4: create_relationships raises nothing, leaves the entity map and its
\* objects as they are (no node is added for a target that is no key of the
\* map), and the relationships hold the edge (entity id, t) for every id t of
\* a connection set that is no key of the map; the nodes then written are
\* the entities of the map, one for one.
C4_UnknownTargetKept ==
    [][/\ pc = "relationships" =>
            /\ pc' = "json"
            /\ scientists' = scientists
            /\ heap' = heap
            /\ \A j \in Items :
                  \A t \in EntityOf(j).connections \ DictKeys(scientists) :
                      [source |-> KeyOf(j), target |-> t] \in Range(relationships')
       /\ (pc = "json" /\ out_file'.kind = "complete") =>
            /\ Len(out_file'.doc.nodes) = Len(scientists)
            /\ \A j \in Items : out_file'.doc.nodes[j].id = KeyOf(j)]_vars

\* C4 witness: relationships were created for a map in which an entity is
\* connected to an id that is no key of the map, and the edge is there.
C4_Witness ==
    /\ pc = "json"
    /\ \E j \in Items :
          \E t \in EntityOf(j).connections \ DictKeys(scientists) :
              [source |-> KeyOf(j), target |-> t] \in Range(relationships)

\* the match is classified as the start of a new entity
IsStart(match) ==
    LET words == SplitWords(match.after)
    IN  words # <<>> /\ IsNewScientist(words[1])

\* the first start after match k, or the end of the matches
NextStart(k) ==
    LET later == {j \in (k + 1)..Len(matches) : IsStart(matches[j])}
    IN  IF later = {} THEN Len(matches) + 1
        ELSE CHOOSE j \in later : \A q \in later : j <= q

RECURSIVE SpanWords(_, _)
\* word by word, the text of the matches k..(e - 1) behind the name of k:
\* the words that follow the name, then each later tag and its words
SpanWords(k, e) ==
    IF e <= k + 1 THEN Tail(SplitWords(matches[k].after))
    ELSE SpanWords(k, e - 1) \o <<Tag(matches[e - 1].id)>>
            \o SplitWords(matches[e - 1].after)

\* the object is no longer the current one, or the scan is over
Finalized(ref) == ref # current_scientist \/ pc # "scan"

\* C5: the biography of an entity of the map holds only text that lies
\* between the entity's own new-entity tag and the next new-entity tag (or
\* the end of input): once finalized it is word for word the text of that
\* span, and before that a part of it that starts behind the entity's name.
C5_BiographyWithinOwnSpan ==
    \A j \in Items :
        LET ref == scientists[j].ref
            k == started_at[ref]
            words == SplitWords(heap[ref].biography)
        IN  IF Finalized(ref)
            THEN words = SpanWords(k, NextStart(k))
            ELSE \E e \in (k + 1)..NextStart(k) : words = SpanWords(k, e)

\* C5 witness: two entities are finalized, the second started behind the
\* first, and both have a biography.
C5_Witness ==
    /\ pc = "connections"
    /\ \E a, b \in Items :
          /\ started_at[scientists[a].ref] < started_at[scientists[b].ref]
          /\ EntityOf(a).biography # <<>>
          /\ EntityOf(b).biography # <<>>

\* ------------------------------------------------ claims on the segmenter

\* extract_text_in_columns has returned for a page that has tokens
Segmented == pc = "segmented" /\ doc[1].words # <<>>

\* the tokens the page keeps, and the boundary computed from them
Content == Range(ContentWords(doc[1].words))
Boundary2 == ColumnBoundary2(ContentWords(doc[1].words), doc[1].width)
LeftPartition == {w \in Content : InLeftColumn(w, Boundary2)}
RightPartition == Content \ LeftPartition

\* where the paragraph separator starts in the string returned
SeparatorAt == CHOOSE p \in 1..Len(text) :
                  text[p].k = "nl" /\ \A q \in 1..(p - 1) : text[q].k # "nl"

LeftSegment == SubSeq(text, 1, SeparatorAt - 1)

\* C6: in the string returned, a left-partition token with the smaller top
\* comes before a left-partition token with the larger top, both inside the
\* left segment, and every left-partition token comes before every
\* right-partition token.
C6_ColumnOrder ==
    Segmented =>
        /\ \A A, B \in LeftPartition :
              A.top < B.top =>
                  \E p, q \in 1..(SeparatorAt - 1) :
                      p < q /\ text[p] = A.text /\ text[q] = B.text
        /\ \A A \in LeftPartition, B \in RightPartition :
              \E p, q \in 1..Len(text) :
                  p < SeparatorAt /\ SeparatorAt < q
                      /\ text[p] = A.text /\ text[q] = B.text

\* C6 witness: a page is segmented on which a left-partition token with the
\* smaller top is listed behind one with the larger top, and the right
\* partition is not empty.
C6_Witness ==
    /\ Segmented
    /\ RightPartition # {}
    /\ \E a, b \in 1..Len(doc[1].words) :
          /\ a < b
          /\ doc[1].words[a] \in LeftPartition
          /\ doc[1].words[b] \in LeftPartition
          /\ doc[1].words[b].top < doc[1].words[a].top

\* the page has the x0 values of the two clusters {10,12,14}, {200,202,205}
IsClusterPage ==
    /\ Len(doc[1].words) = Len(ClusterX0)
    /\ \A j \in 1..Len(ClusterX0) : doc[1].words[j].x0 = ClusterX0[j]

FirstCluster(ws) == {w \in ws : w.x0 <= 14}
SecondCluster(ws) == {w \in ws : w.x0 >= 200}

\* twice the boundary lies strictly between 14 and 200
BoundaryInGutter == 2 * 14 < Boundary2 /\ Boundary2 < 2 * 200

\* C7 as claimed: on a page of the two clusters, whatever the vertical
\* offsets, the boundary lies strictly between 14 and 200 and every token of
\* the first cluster is in the left segment of the string returned.
C7_ClusterPageAnyOffsets ==
    (Segmented /\ IsClusterPage) =>
        /\ BoundaryInGutter
        /\ \A w \in FirstCluster(Range(doc[1].words)) : w.text \in Range(LeftSegment)

\* C7 as amended: on a page of the two clusters on which tokens of both
\* clusters are left after the header line is removed, the boundary lies
\* strictly between 14 and 200 and every first-cluster token that is left is
\* in the left segment of the string returned.
C7_ClusterPageBothClustersKept ==
    (Segmented /\ IsClusterPage
        /\ FirstCluster(Content) # {} /\ SecondCluster(Content) # {}) =>
        /\ BoundaryInGutter
        /\ \A w \in FirstCluster(Content) : w.text \in Range(LeftSegment)

\* C7 witness: a cluster page is segmented whose header line took tokens
\* away and left tokens of both clusters.
C7_Witness ==
    /\ Segmented
    /\ IsClusterPage
    /\ Cardinality(Content) < Len(ClusterX0)
    /\ FirstCluster(Content) # {}
    /\ SecondCluster(Content) # {}

\* ------------------------------------------------- claims on the failures

RECURSIVE PagesTextSkipping(_, _, _)
\* the aggregate with the page that failed read as a page without text
PagesTextSkipping(d, i, failing) ==
    IF i >= NumPages \/ i >= Len(d) THEN <<>>
    ELSE LET page_text == IF i + 1 = failing THEN <<>>
                          ELSE extract_text_in_columns(d[i + 1])
         IN  (IF page_text # <<>>
              THEN <<Nl, Marker(StartPage + i), Nl>> \o page_text
              ELSE <<>>) \o PagesTextSkipping(d, i + 1, failing)

\* C8: when the read of one page of the range fails and other pages give
\* text, extract_text_from_pdf returns the text of the pages that were read,
\* the failed page counting as empty, and the run goes on to parse it
\* instead of stopping.
C8_FailedPageReadAsEmpty ==
    (/\ pc \notin {"main", "extract"}
     /\ failed_page # 0
     /\ PagesTextSkipping(doc, 0, failed_page) # <<>>) =>
        /\ text = PagesTextSkipping(doc, 0, failed_page)
        /\ console # "failed to extract text"

\* C9: when generate_network_json fails, the output path holds the complete
\* new document or what it held before the run, never a part of a document.
C9_OutputWrittenAtomically ==
    (pc = "exit" /\ console = "traceback") =>
        \/ out_file = PreviousFile
        \/ out_file = CompleteFile(Network(scientists, heap, relationships))

\* C10: when book.pdf does not exist, main reports the error with nothing
\* extracted or parsed, and the process ends with a non-zero exit status.
C10_MissingPdfIsFatal ==
    (pc = "exit" /\ console = "pdf not found") =>
        /\ text = <<>>
        /\ heap = <<>>
        /\ scientists = <<>>
        /\ exit_status # 0

\* ---------------------------------------------- claims on the entry parser

\* the characters of the first token behind the tag of a match, <<>> when
\* nothing follows the tag
FirstToken(match) ==
    LET words == SplitWords(match.after)
    IN  IF words = <<>> THEN <<>> ELSE words[1].c

\* the scan is about to take a match
Scanning == pc = "scan" /\ match_index <= Len(matches)

Parsed ==
    \/ pc \in {"connections", "relationships", "json", "stats"}
    \/ pc = "exit" /\ console \notin {"pdf not found", "failed to extract text"}

\* the matches classified as the start of a new entity
Starts == {k \in 1..Len(matches) : IsStart(matches[k])}

\* the last start that has the id
LastStart(id) ==
    CHOOSE k \in Starts :
        /\ matches[k].id = id
        /\ \A q \in Starts : matches[q].id = id => q <= k

\* C12: once the scan has reached the end of input, the keys of the entity
\* map are exactly the ids of the matches classified as a new-entity start,
\* the last entity included, and under each key the map holds the entity of
\* the last start with that id: its name, and as biography the text of its
\* span.
C12_KeysAreStartsLastWriterWins ==
    Parsed =>
        /\ DictKeys(scientists) = {matches[k].id : k \in Starts}
        /\ \A j \in Items :
              LET k == LastStart(KeyOf(j))
              IN  /\ EntityOf(j).id = KeyOf(j)
                  /\ EntityOf(j).name = FirstToken(matches[k])
                  /\ SplitWords(EntityOf(j).biography) = SpanWords(k, NextStart(k))

\* C12 witness: the scan has ended on a text in which one id starts an
\* entity twice, under two names and with two biographies.
C12_Witness ==
    /\ pc = "connections"
    /\ \E a, b \in Starts :
          /\ a < b
          /\ matches[a].id = matches[b].id
          /\ FirstToken(matches[a]) # FirstToken(matches[b])
          /\ SpanWords(a, NextStart(a)) # SpanWords(b, NextStart(b))

\* where the tags stand in the aggregated text, in order; the tag of match k
\* is the k-th of them
TagPositions == SelectSeq([p \in 1..Len(text) |-> p], LAMBDA p : text[p].k = "tag")

\* the page number of the nearest marker before position p, 0 when none
PageBefore(p) ==
    LET before == {q \in 1..(p - 1) : text[q].k = "marker"}
    IN  IF before = {} THEN 0
        ELSE text[CHOOSE q \in before : \A r \in before : r <= q].n

\* C13: once the scan has ended, the page number of every entity of the map
\* is the number of the nearest page marker that precedes the entity's own
\* start tag in the aggregated text.
C13_PageOfOwnStartTag ==
    Parsed =>
        \A j \in Items :
            EntityOf(j).page_number =
                PageBefore(TagPositions[started_at[scientists[j].ref]])

\* the match the scan is about to take is a reference by the rule
ScanningReference ==
    /\ Scanning
    /\ LET first == FirstToken(matches[match_index])
       IN  ~(CapitalCount(first) >= 2 /\ Len(first) > 2)

\* C14: a turn of the scan on a tag classified as a reference inserts
\* nothing into the entity map and changes no entity's stored biography or
\* page number; an entity is finalized only when the next new-entity tag
\* supersedes it or at the end of input.
C14_ReferenceFinalizesNothing ==
    [][ScanningReference =>
          /\ scientists' = scientists
          /\ \A r \in 1..Len(heap) :
                /\ heap'[r].biography = heap[r].biography
                /\ heap'[r].page_number = heap[r].page_number]_vars

\* ---------------------------------- claims on the header and the boundary

\* the smallest vertical offset on the page
MinTop ==
    CHOOSE t \in {w.top : w \in Range(doc[1].words)} :
        \A w \in Range(doc[1].words) : t <= w.top

\* the tokens more than 5 units below the smallest vertical offset
BelowHeader == {w \in Range(doc[1].words) : w.top > MinTop + HeaderTolerance}

\* the token texts in the string returned
TextsReturned == {text[p] : p \in {q \in 1..Len(text) : text[q].k = "word"}}

\* C15: the string returned holds the text of every token more than 5 units
\* below the page's smallest vertical offset and of no token within 5 units
\* of it; when no token lies that far below, it holds the text of every
\* token of the page, so a page with tokens never gives a string without
\* token text.
C15_HeaderExcludedOrAllKept ==
    Segmented =>
        /\ TextsReturned # {}
        /\ TextsReturned =
              {w.text : w \in IF BelowHeader = {} THEN Range(doc[1].words)
                                                 ELSE BelowHeader}

\* C15 witness: a page is segmented on which one token lies exactly 5 units
\* below the smallest vertical offset and another lies further below.
C15_Witness ==
    /\ Segmented
    /\ BelowHeader # {}
    /\ \E w \in Range(doc[1].words) : w.top = MinTop + HeaderTolerance

\* the tokens left after header exclusion have fewer than two distinct x0
FewerThanTwoX0 == Cardinality({w.x0 : w \in Content}) < 2

\* C16: when the tokens left after header exclusion have fewer than two
\* distinct x0 values, the boundary is the page's horizontal midpoint: the
\* tokens left of the midpoint are in the left segment of the string
\* returned and the others in the right segment.
C16_SharedX0SplitsAtMidpoint ==
    (Segmented /\ FewerThanTwoX0) =>
        /\ Boundary2 = doc[1].width
        /\ \A w \in Content :
              w.text \in Range(LeftSegment) <=> 2 * w.x0 < doc[1].width

\* --------------------------- claims on malformed brackets and page markers

\* the aggregated text with every malformed bracket taken out
WithoutMalformed == SelectSeq(text, LAMBDA a : a.k # "bad")

\* the matches of that text
MatchesWithoutMalformed == BracketMatches(CleanText(WithoutMalformed))

\* C17: a malformed bracket is skipped: it is no match of the scan, and once
\* the scan has ended every numeric tag has been classified as it is
\* classified in the same text without the malformed brackets.
C17_MalformedBracketChangesNothing ==
    Parsed =>
        /\ Len(matches) = Len(MatchesWithoutMalformed)
        /\ \A k \in 1..Len(matches) :
              k \in Range(started_at) <=> IsStart(MatchesWithoutMalformed[k])

RECURSIVE MarkedPages(_, _)
\* for the pages i.. of the range that exist, in increasing order: the
\* marker of the page, immediately followed by the page's linearized text
MarkedPages(d, i) ==
    IF i >= NumPages \/ i >= Len(d) THEN <<>>
    ELSE <<Nl, Marker(StartPage + i), Nl>> \o extract_text_in_columns(d[i + 1])
            \o MarkedPages(d, i + 1)

\* extract_text_from_pdf has returned
Extracted == pc \notin {"main", "extract"} /\ console # "pdf not found"

\* C18: when every page of the range has been read, the aggregate is, for
\* each page of the range that exists and in increasing page order, the
\* marker with the page's 1-based number immediately followed by the page's
\* linearized text: every page of the range has its marker.
C18_EveryPageHasItsMarker ==
    (Extracted /\ failed_page = 0) => text = MarkedPages(doc, 0)

\* ------------------------------------- claims on the graph and the top list

\* create_relationships has returned
RelationshipsCreated == Parsed /\ pc \notin {"connections", "relationships"}

RECURSIVE SumOfDegrees(_)
\* the sizes of the connection sets of the items j.. of the map, added up
SumOfDegrees(j) ==
    IF j > Len(scientists) THEN 0
    ELSE Cardinality(EntityOf(j).connections) + SumOfDegrees(j + 1)

\* C19: the relationships hold exactly one edge (s, t) for each entity s of
\* the map and each t of its connection set, and no other edge; in the
\* document written the edge count is the sum of the sizes of the
\* connection sets and the entity count is the number of nodes.
C19_OneEdgePerConnection ==
    RelationshipsCreated =>
        /\ \A j \in Items :
              \A t \in EntityOf(j).connections :
                  Cardinality({e \in 1..Len(relationships) :
                                  relationships[e] = [source |-> KeyOf(j), target |-> t]}) = 1
        /\ \A e \in 1..Len(relationships) :
              \E j \in Items :
                  /\ relationships[e].source = KeyOf(j)
                  /\ relationships[e].target \in EntityOf(j).connections
        /\ out_file.kind = "complete" =>
              /\ out_file.doc.links = relationships
              /\ out_file.doc.metadata.total_relationships = SumOfDegrees(1)
              /\ out_file.doc.metadata.total_scientists = Len(out_file.doc.nodes)

\* C19 witness: the document is written for a map of several entities, one
\* of them with two connections, another with one.
C19_Witness ==
    /\ pc = "stats"
    /\ out_file.kind = "complete"
    /\ \E a, b \in Items :
          /\ Cardinality(EntityOf(a).connections) = 2
          /\ Cardinality(EntityOf(b).connections) = 1

\* generate_summary_stats has printed its list
StatsPrinted == pc = "exit" /\ console = ""

\* where an id stands in the entity map, and its out-degree
PosOf(id) == CHOOSE j \in Items : KeyOf(j) = id
Degree(id) == Cardinality(EntityOf(PosOf(id)).connections)

\* C20: the top list holds TopK entities of the map, or all of them when
\* the map has fewer, each once; no entity left out has a larger out-degree
\* than a listed one; the list is in non-increasing out-degree order, and
\* of two listed entities with equal out-degree the one whose id was
\* inserted into the map first comes first.
C20_TopListByDegreeStable ==
    StatsPrinted =>
        /\ Len(most_connected) =
              (IF Len(scientists) < TopK THEN Len(scientists) ELSE TopK)
        /\ Range(most_connected) \subseteq DictKeys(scientists)
        /\ \A a, b \in 1..Len(most_connected) :
              a < b =>
                  /\ most_connected[a] # most_connected[b]
                  /\ \/ Degree(most_connected[a]) > Degree(most_connected[b])
                     \/ /\ Degree(most_connected[a]) = Degree(most_connected[b])
                        /\ PosOf(most_connected[a]) < PosOf(most_connected[b])
        /\ \A out \in DictKeys(scientists) \ Range(most_connected) :
              \A listed \in Range(most_connected) : Degree(out) <= Degree(listed)

\* C20 witness: the list is printed for a map of more than TopK entities
\* with three different out-degrees, so that an entity is left out, the
\* list has ties, and entities inserted later stand before earlier ones.
C20_Witness ==
    /\ StatsPrinted
    /\ Len(scientists) > TopK
    /\ Len(most_connected) = TopK
    /\ \E a, b \in 1..TopK :
          /\ a < b
          /\ Degree(most_connected[a]) = Degree(most_connected[b])
    /\ \E a, b \in 1..TopK :
          /\ a < b
          /\ Degree(most_connected[a]) > Degree(most_connected[b])
          /\ PosOf(most_connected[a]) > PosOf(most_connected[b])
    /\ Cardinality({Degree(id) : id \in DictKeys(scientists)}) = 3

\* --------------------------------- claims on the inline connection sets

\* C21: after every turn of the scan and after its end, each entity of the
\* map that is finalized has as connection set, captured inline, exactly
\* the ids of the bracket tags of its stored biography; and
\* extract_connections then adds no id to any connection set, so the final
\* sets are the inline sets.
C21_InlineIdsAreBiographyIds ==
    [][/\ pc = "scan" =>
            \A j \in 1..Len(scientists') :
                LET ref == scientists'[j].ref
                IN  (ref # current_scientist' \/ pc' # "scan") =>
                        heap'[ref].connections = References(heap'[ref].biography)
       /\ pc = "connections" => heap' = heap]_vars

\* C21 witness: the scan has ended with an entity that was superseded by a
\* later one and whose inline set holds its own id, the one id that
\* extract_connections would not add from the biography.
C21_Witness ==
    /\ pc = "connections"
    /\ \E a, b \in Items :
          /\ started_at[scientists[a].ref] < started_at[scientists[b].ref]
          /\ KeyOf(a) \in EntityOf(a).connections
          /\ KeyOf(a) \in References(EntityOf(a).biography)

\* ------------------------------------ claims on the tokens of the output

\* the tokens kept: those below the header line, or all when none is
TokensKept == IF BelowHeader = {} THEN Range(doc[1].words) ELSE BelowHeader

\* where the string returned holds an atom of the kind
PositionsOf(kind) == {p \in 1..Len(text) : text[p].k = kind}

\* C22: the string returned holds the text of each token kept exactly once
\* and no other token text; apart from the token texts it holds only the
\* one paragraph separator and single blanks, each between two token texts.
C22_TokensOnceAndNothingElse ==
    Segmented =>
        /\ \A w \in TokensKept :
              Cardinality({p \in PositionsOf("word") : text[p] = w.text}) = 1
        /\ Cardinality(PositionsOf("word")) = Cardinality(TokensKept)
        /\ \A p \in 1..Len(text) : text[p].k \in {"word", "sp", "nl"}
        /\ PositionsOf("nl") = {SeparatorAt, SeparatorAt + 1}
        /\ \A p \in PositionsOf("sp") :
              /\ 1 < p /\ p < Len(text)
              /\ text[p - 1].k = "word"
              /\ text[p + 1].k = "word"

\* C22 witness: a page is segmented whose header line took a token away
\* and whose other tokens went to both columns, two of them to one column.
C22_Witness ==
    /\ Segmented
    /\ BelowHeader # {}
    /\ BelowHeader # Range(doc[1].words)
    /\ LeftPartition # {}
    /\ RightPartition # {}
    /\ PositionsOf("sp") # {}

====
